---- MODULE Spec2Model ----
(***************************************************************************)
(* Omok (five-in-a-row) game engine: the GameState of src/game_state.py,  *)
(* its rules (reset_game, is_valid_move, make_move, check_win) and its     *)
(* state file (load_state, save_state); the two parsers (parse_coordinate  *)
(* and _parse_move_from_title of src/omok_game.py); and the command        *)
(* surface of src/omok_game.py (process_move, reset_game, show_status)     *)
(* with the README update of src/update_readme_text.py, run as handlers    *)
(* that interleave at every access to the state file; and the status       *)
(* strings of get_status_message and of get_current_game_info              *)
(* (src/embed_svg.py, src/update_readme.py).                               *)
(*                                                                         *)
(* Python lists are 0-indexed, TLA+ sequences 1-indexed: the cell the code *)
(* calls board[row][col] is board[row + 1][col + 1] here.  None is the     *)
(* string "None" for winner and return values and the empty tuple for      *)
(* last_move (the code only ever tests last_move for truthiness).          *)
(***************************************************************************)
EXTENDS Integers, Sequences, FiniteSets, TLC

VARIABLES
  game_state,   \* the fields of the GameState object
  state_file,   \* the content of STATE_FILE
  ret,          \* what the last call returned or raised
  log,          \* the lines the last call printed
  successes,    \* history: make_move calls that returned True since reset
  arena,        \* the cells the callers of this run draw their moves from
  seen,         \* history: the content the last load_state found in the file
  handlers,     \* the invocations of the command surface, one record each
  readme,       \* the content of README_FILE
  coord_str,    \* the string given to the parser, a sequence of characters
  coords,       \* what the parser returned for it
  status_text   \* the status string last produced, a sequence of its parts

vars ==
  <<game_state, state_file, ret, log, successes, arena, seen, handlers, readme,
    coord_str, coords, status_text>>

\* ---------------------------------------------------------------- constants

BOARD_SIZE == 15

WIN_COUNT == 5

BLACK == "black"

WHITE == "white"

EMPTY == "empty"

ONGOING == "ongoing"

BLACK_WINS == "black_wins"

WHITE_WINS == "white_wins"

DRAW == "draw"

None == "None"

NoMove == <<>>

Player == {BLACK, WHITE, EMPTY}

GameStatus == {ONGOING, BLACK_WINS, WHITE_WINS, DRAW}

\* ------------------------------------------------------------------- bounds

\* number of cells off the lines that the callers of a run may also play on
NumSpare == 0

\* number of cells still empty in the late-game position of SpecEndgame
NumHoles == 5

\* number of cells on either side of a move that may hold stones in SpecLines
Reach == 4

\* length of the longest string given to parse_coordinate
MaxCoordLen == 4

\* the largest row number given to parse_coordinate with every letter
MaxNumber == 17

\* ------------------------------------------------------------ the GameState

\* GameState.__init__: the board of a constructed engine is the empty list
Constructed ==
  [board |-> <<>>, current_player |-> BLACK, game_status |-> ONGOING,
   move_count |-> 0, winner |-> None, last_move |-> NoMove]

EmptyBoard == [r \in 1..BOARD_SIZE |-> [c \in 1..BOARD_SIZE |-> EMPTY]]

reset_game(self) ==
  [board |-> EmptyBoard, current_player |-> BLACK, game_status |-> ONGOING,
   move_count |-> 0, winner |-> None, last_move |-> NoMove]

\* the value of the expression self.board[row][col] for row, col >= 0:
\* "IndexError" where the list of lists has no such element
Cell(board, row, col) ==
  IF row + 1 > Len(board) THEN "IndexError"
  ELSE IF col + 1 > Len(board[row + 1]) THEN "IndexError"
  ELSE board[row + 1][col + 1]

\* is_valid_move without the test of the status
IsValidMoveAnyStatus(self, row, col) ==
  IF row < 0 \/ row >= BOARD_SIZE \/ col < 0 \/ col >= BOARD_SIZE
    THEN "False"
  ELSE IF Cell(self.board, row, col) = "IndexError" THEN "IndexError"
  ELSE IF Cell(self.board, row, col) = EMPTY THEN "True" ELSE "False"

\* is_valid_move with > for >= in the upper limit of row
IsValidMoveRowOffByOne(self, row, col) ==
  IF self.game_status # ONGOING THEN "False"
  ELSE IF row < 0 \/ row > BOARD_SIZE \/ col < 0 \/ col >= BOARD_SIZE
    THEN "False"
  ELSE IF Cell(self.board, row, col) = "IndexError" THEN "IndexError"
  ELSE IF Cell(self.board, row, col) = EMPTY THEN "True" ELSE "False"

is_valid_move(self, row, col) ==
  IF self.game_status # ONGOING THEN "False"
  ELSE IF row < 0 \/ row >= BOARD_SIZE \/ col < 0 \/ col >= BOARD_SIZE
    THEN "False"
  ELSE IF Cell(self.board, row, col) = "IndexError" THEN "IndexError"
  ELSE IF Cell(self.board, row, col) = EMPTY THEN "True" ELSE "False"

\* one while loop of check_win: the number of consecutive cells holding
\* player met from (r, c) on in steps of (dr, dc) before the board's edge
RECURSIVE CountFrom(_, _, _, _, _, _)
CountFrom(board, player, r, c, dr, dc) ==
  IF 0 <= r /\ r < BOARD_SIZE /\ 0 <= c /\ c < BOARD_SIZE
     /\ board[r + 1][c + 1] = player
  THEN 1 + CountFrom(board, player, r + dr, c + dc, dr, dc)
  ELSE 0

directions == << <<0, 1>>, <<1, 0>>, <<1, 1>>, <<1, -1>> >>

\* the count check_win reaches for one direction
AxisCount(self, row, col, d) ==
  1 + CountFrom(self.board, self.current_player,
                row + d[1], col + d[2], d[1], d[2])
    + CountFrom(self.board, self.current_player,
                row - d[1], col - d[2], 0 - d[1], 0 - d[2])

\* check_win without its last direction
CheckWinThreeDirections(self, row, col) ==
  \E i \in 1..(Len(directions) - 1) :
    AxisCount(self, row, col, directions[i]) >= WIN_COUNT

\* check_win that asks for exactly WIN_COUNT in a line
CheckWinExactFive(self, row, col) ==
  \E i \in 1..Len(directions) :
    AxisCount(self, row, col, directions[i]) = WIN_COUNT

\* check_win that counts from the stone in the positive direction only
CheckWinForwardOnly(self, row, col) ==
  \E i \in 1..Len(directions) :
    1 + CountFrom(self.board, self.current_player,
                  row + directions[i][1], col + directions[i][2],
                  directions[i][1], directions[i][2]) >= WIN_COUNT

check_win(self, row, col) ==
  \E i \in 1..Len(directions) :
    AxisCount(self, row, col, directions[i]) >= WIN_COUNT

\* PlaceStone without the assignment of last_move
PlaceStoneNoLastMove(self, row, col) ==
  [self EXCEPT !.board[row + 1][col + 1] = self.current_player,
               !.move_count = self.move_count + 1]

\* PlaceStone without the increment of move_count
PlaceStoneNoCount(self, row, col) ==
  [self EXCEPT !.board[row + 1][col + 1] = self.current_player,
               !.last_move = <<row, col>>]

\* PlaceStone that records the move as (col, row)
PlaceStoneSwappedLastMove(self, row, col) ==
  [self EXCEPT !.board[row + 1][col + 1] = self.current_player,
               !.last_move = <<col, row>>,
               !.move_count = self.move_count + 1]

\* make_move, "Place the stone": the three assignments after the validation
PlaceStone(self, row, col) ==
  [self EXCEPT !.board[row + 1][col + 1] = self.current_player,
               !.last_move = <<row, col>>,
               !.move_count = self.move_count + 1]

\* Conclude without the switch of players
ConcludeNoSwitch(self, row, col) ==
  IF check_win(self, row, col)
    THEN [self EXCEPT !.winner = self.current_player,
                      !.game_status = IF self.current_player = BLACK
                                      THEN BLACK_WINS ELSE WHITE_WINS]
  ELSE IF self.move_count >= BOARD_SIZE * BOARD_SIZE
    THEN [self EXCEPT !.game_status = DRAW]
  ELSE self

\* Conclude that names the player to move next as the winner
ConcludeWrongWinner(self, row, col) ==
  IF check_win(self, row, col)
    THEN [self EXCEPT !.winner = IF self.current_player = BLACK
                                 THEN WHITE ELSE BLACK,
                      !.game_status = IF self.current_player = BLACK
                                      THEN BLACK_WINS ELSE WHITE_WINS]
  ELSE IF self.move_count >= BOARD_SIZE * BOARD_SIZE
    THEN [self EXCEPT !.game_status = DRAW]
  ELSE [self EXCEPT !.current_player = IF self.current_player = BLACK
                                       THEN WHITE ELSE BLACK]

\* Conclude with > for >= in the test for the full board
ConcludeDrawLate(self, row, col) ==
  IF check_win(self, row, col)
    THEN [self EXCEPT !.winner = self.current_player,
                      !.game_status = IF self.current_player = BLACK
                                      THEN BLACK_WINS ELSE WHITE_WINS]
  ELSE IF self.move_count > BOARD_SIZE * BOARD_SIZE
    THEN [self EXCEPT !.game_status = DRAW]
  ELSE [self EXCEPT !.current_player = IF self.current_player = BLACK
                                       THEN WHITE ELSE BLACK]

\* make_move, "Check for win": the if / elif / else that ends it
Conclude(self, row, col) ==
  IF check_win(self, row, col)
    THEN [self EXCEPT !.winner = self.current_player,
                      !.game_status = IF self.current_player = BLACK
                                      THEN BLACK_WINS ELSE WHITE_WINS]
  ELSE IF self.move_count >= BOARD_SIZE * BOARD_SIZE
    THEN [self EXCEPT !.game_status = DRAW]
  ELSE [self EXCEPT !.current_player = IF self.current_player = BLACK
                                       THEN WHITE ELSE BLACK]

\* make_move that records last_move before it validates
MakeMoveMarksFirst(self, row, col) ==
  LET valid == is_valid_move(self, row, col)
      marked == [self EXCEPT !.last_move = <<row, col>>]
  IN IF valid = "IndexError" THEN [self |-> marked, ret |-> "IndexError"]
     ELSE IF valid = "False" THEN [self |-> marked, ret |-> "False"]
     ELSE [self |-> Conclude(PlaceStone(self, row, col), row, col),
           ret |-> "True"]

\* make_move: the state it leaves and the value it returns (or the exception
\* of is_valid_move that escapes it)
make_move(self, row, col) ==
  LET valid == is_valid_move(self, row, col)
  IN IF valid = "IndexError" THEN [self |-> self, ret |-> "IndexError"]
     ELSE IF valid = "False" THEN [self |-> self, ret |-> "False"]
     ELSE [self |-> Conclude(PlaceStone(self, row, col), row, col),
           ret |-> "True"]

\* ------------------------------------------------------------- persistence

\* STATE_FILE holds [kind, data]: kind "absent" (no file), "unopenable" (the
\* path exists but open() fails on it: a directory, a file without
\* permission), "text" (not JSON), "list" (JSON, but not an object) or
\* "object", and then data maps the keys of the object to their values.
\* JSON null is JsonNull in a string field and the empty list in last_move
\* (both are falsy to the code).
JsonNull == "null"

NoData == [k \in {} |-> JsonNull]

Absent == [kind |-> "absent", data |-> NoData]

\* dict.get(key, default)
Get(data, key, default) == IF key \in DOMAIN data THEN data[key] ELSE default

\* the truth value Python gives a string field read from the file
Truthy(v) == v # JsonNull /\ v # ""

\* json.dump of the dictionary save_state builds
Encode(self) ==
  [kind |-> "object",
   data |-> [board |-> self.board,
             current_player |-> self.current_player,
             game_status |-> self.game_status,
             move_count |-> self.move_count,
             winner |-> IF self.winner # None THEN self.winner ELSE JsonNull,
             last_move |-> IF self.last_move # NoMove THEN self.last_move
                           ELSE <<>>]]

\* save_state that reports success without replacing the file's content
SaveStateNoWrite(self, file) ==
  IF file.kind = "unopenable"
    THEN [file |-> file, ret |-> "False",
          log |-> <<"Error saving game state">>]
  ELSE [file |-> file, ret |-> "True", log |-> <<>>]

\* save_state: the file it leaves, the value it returns and what it prints
save_state(self, file) ==
  IF file.kind = "unopenable"
    THEN [file |-> file, ret |-> "False",
          log |-> <<"Error saving game state">>]
  ELSE [file |-> Encode(self), ret |-> "True", log |-> <<>>]

\* the fields load_state assigns from a parsed object, before it validates
Decode(data) ==
  [board |-> Get(data, "board", <<>>),
   current_player |-> Get(data, "current_player", BLACK),
   game_status |-> Get(data, "game_status", ONGOING),
   move_count |-> Get(data, "move_count", 0),
   winner |-> IF Truthy(Get(data, "winner", JsonNull)) THEN data["winner"]
              ELSE None,
   last_move |-> IF Get(data, "last_move", <<>>) # <<>> THEN data["last_move"]
                 ELSE NoMove]

\* Player(...) or GameStatus(...) raises ValueError in load_state
EnumError(data) ==
  \/ Get(data, "current_player", BLACK) \notin Player
  \/ Get(data, "game_status", ONGOING) \notin GameStatus
  \/ /\ Truthy(Get(data, "winner", JsonNull))
     /\ data["winner"] \notin Player

\* the board size validation without its test of the rows' lengths
BadBoardSizeRowsOnly(board) == Len(board) # BOARD_SIZE

\* the board size validation of load_state fails
BadBoardSize(board) ==
  \/ Len(board) # BOARD_SIZE
  \/ \E r \in 1..Len(board) : Len(board[r]) # BOARD_SIZE

\* load_state that does not create the file it does not find
LoadStateNoCreate(self, file) ==
  LET fresh == reset_game(self)
      healed == save_state(fresh, file).file
  IN IF file.kind = "absent"
       THEN [self |-> fresh, file |-> file, ret |-> "True", log |-> <<>>]
     ELSE IF file.kind = "unopenable"
       THEN [self |-> self, file |-> file, ret |-> "OSError", log |-> <<>>]
     ELSE IF file.kind = "text"
       THEN [self |-> fresh, file |-> healed, ret |-> "False",
             log |-> <<"Error loading game state">>]
     ELSE IF file.kind = "list"
       THEN [self |-> self, file |-> file, ret |-> "AttributeError",
             log |-> <<>>]
     ELSE IF EnumError(file.data)
       THEN [self |-> fresh, file |-> healed, ret |-> "False",
             log |-> <<"Error loading game state">>]
     ELSE IF BadBoardSize(Decode(file.data).board)
       THEN [self |-> fresh, file |-> healed, ret |-> "True", log |-> <<>>]
     ELSE [self |-> Decode(file.data), file |-> file, ret |-> "True",
           log |-> <<>>]

\* load_state: the state and the file it leaves, the value it returns (or the
\* exception that escapes it) and what it prints
load_state(self, file) ==
  LET fresh == reset_game(self)
      healed == save_state(fresh, file).file
  IN IF file.kind = "absent"
       THEN [self |-> fresh, file |-> healed, ret |-> "True", log |-> <<>>]
     ELSE IF file.kind = "unopenable"
       THEN [self |-> self, file |-> file, ret |-> "OSError", log |-> <<>>]
     ELSE IF file.kind = "text"
       THEN [self |-> fresh, file |-> healed, ret |-> "False",
             log |-> <<"Error loading game state">>]
     ELSE IF file.kind = "list"
       THEN [self |-> self, file |-> file, ret |-> "AttributeError",
             log |-> <<>>]
     ELSE IF EnumError(file.data)
       THEN [self |-> fresh, file |-> healed, ret |-> "False",
             log |-> <<"Error loading game state">>]
     ELSE IF BadBoardSize(Decode(file.data).board)
       THEN [self |-> fresh, file |-> healed, ret |-> "True", log |-> <<>>]
     ELSE [self |-> Decode(file.data), file |-> file, ret |-> "True",
           log |-> <<>>]

\* ------------------------------------------------------- the callers' inputs

\* the horizontal and the vertical line of WIN_COUNT cells from the corner
\* (0, 0), on the top and the left edge of the board
Corner ==
  {<<0, k>> : k \in 0..(WIN_COUNT - 1)} \cup {<<k, 0>> : k \in 0..(WIN_COUNT - 1)}

\* the diagonal and the anti-diagonal line of WIN_COUNT cells that meet in
\* their topmost cell and end on the bottom edge, the diagonal in the corner
Vee ==
  {<<BOARD_SIZE - 1 - k, BOARD_SIZE - 1 - k>> : k \in 0..(WIN_COUNT - 1)}
  \cup {<<BOARD_SIZE - WIN_COUNT + k, BOARD_SIZE - WIN_COUNT - k>> :
          k \in 0..(WIN_COUNT - 1)}

\* a block around the centre (7, 7) of the board
Centre == {<<7, 7>>, <<7, 8>>, <<7, 9>>, <<8, 7>>, <<8, 8>>, <<8, 9>>}

\* cells off the lines
Spare == {<<7, 7 + k>> : k \in 0..(NumSpare - 1)}

Arenas == {Corner \cup Spare, Vee \cup Spare, Centre}

\* one input beyond each edge of the board
OutOfRange == {<<-1, 0>>, <<0, -1>>, <<BOARD_SIZE, 0>>, <<0, BOARD_SIZE>>}

Inputs == arena \cup OutOfRange

\* ------------------------------------------------------------------ actions

\* None where a (row, col) tuple is expected: both parsers return it
NoCoord == <<>>

\* no load_state call has been made yet
Unseen == [kind |-> "unseen", data |-> NoData]

\* no invocation of the command surface
NoHandlers == <<>>

\* no status string produced yet
NoText == <<>>

\* README_FILE does not exist
NoReadme == [kind |-> "absent", section |-> <<>>]

Init ==
  /\ game_state = Constructed
  /\ state_file = Absent
  /\ ret = None
  /\ log = <<>>
  /\ successes = 0
  /\ arena \in Arenas
  /\ seen = Unseen
  /\ handlers = NoHandlers
  /\ readme = NoReadme
  /\ coord_str = <<>>
  /\ coords = NoCoord
  /\ status_text = NoText

ResetGame ==
  /\ game_state' = reset_game(game_state)
  /\ ret' = None
  /\ log' = <<>>
  /\ successes' = 0
  /\ UNCHANGED <<state_file, arena, seen, handlers, readme, coord_str, coords, status_text>>

MakeMove(row, col) ==
  \E out \in {make_move(game_state, row, col)} :
    /\ game_state' = out.self
    /\ ret' = out.ret
    /\ log' = <<>>
    /\ successes' = IF out.ret = "True" THEN successes + 1 ELSE successes
    /\ UNCHANGED <<state_file, arena, seen, handlers, readme, coord_str, coords, status_text>>

IsValidMove(row, col) ==
  /\ ret' = is_valid_move(game_state, row, col)
  /\ log' = <<>>
  /\ UNCHANGED <<game_state, state_file, successes, arena, seen, handlers,
                  readme, coord_str, coords, status_text>>

SaveState ==
  LET out == save_state(game_state, state_file)
  IN /\ state_file' = out.file
     /\ ret' = out.ret
     /\ log' = out.log
     /\ UNCHANGED <<game_state, successes, arena, seen, handlers, readme,
                   coord_str, coords, status_text>>

LoadState ==
  LET out == load_state(game_state, state_file)
  IN /\ game_state' = out.self
     /\ state_file' = out.file
     /\ ret' = out.ret
     /\ log' = out.log
     /\ successes' = 0
     /\ seen' = state_file
     /\ UNCHANGED <<arena, handlers, readme, coord_str, coords, status_text>>

Next ==
  \/ ResetGame
  \/ \E rc \in Inputs : MakeMove(rc[1], rc[2])
  \/ \E rc \in Inputs : IsValidMove(rc[1], rc[2])

\* the engine, from its construction
Spec == Init /\ [][Next]_vars

\* ------------------------------------------------- a late-game position

\* a full board without five in a line: no run in it is longer than two
Pattern(r, c) == IF (c + 2 * r) % 4 < 2 THEN BLACK ELSE WHITE

\* the cells of Pattern still empty, alternately a black and a white one;
\* (1, 5) and (2, 6) are the gap of the diagonal from (0, 4) to (4, 8)
Holes == << <<14, 0>>, <<1, 5>>, <<1, 11>>, <<2, 6>>, <<2, 12>>, <<14, 2>> >>

HoleSet == {Holes[k] : k \in 1..NumHoles}

\* Pattern less the holes: BOARD_SIZE * BOARD_SIZE - NumHoles moves from
\* reset, in any order that alternates the colours, lead here
LateGame ==
  LET n == BOARD_SIZE * BOARD_SIZE - NumHoles
  IN [board |-> [r \in 1..BOARD_SIZE |-> [c \in 1..BOARD_SIZE |->
                   IF <<r - 1, c - 1>> \in HoleSet THEN EMPTY
                   ELSE Pattern(r - 1, c - 1)]],
      current_player |-> IF n % 2 = 0 THEN BLACK ELSE WHITE,
      game_status |-> ONGOING,
      move_count |-> n,
      winner |-> None,
      last_move |-> IF n % 2 = 1 THEN <<0, 0>> ELSE <<0, 2>>]

InitEndgame ==
  /\ game_state = LateGame
  /\ state_file = Absent
  /\ ret = "True"
  /\ log = <<>>
  /\ successes = LateGame.move_count
  /\ arena = HoleSet \cup {<<0, 0>>}
  /\ seen = Unseen
  /\ handlers = NoHandlers
  /\ readme = NoReadme
  /\ coord_str = <<>>
  /\ coords = NoCoord
  /\ status_text = NoText

\* the engine, from the late-game position
SpecEndgame == InitEndgame /\ [][Next]_vars

\* ------------------------------------------------------ the state file

\* a game after eight moves: Black holds (0, 0) .. (0, 3), White (1, 0) ..
\* (4, 0), and Black is to move
MidGame ==
  [board |-> [r \in 1..BOARD_SIZE |-> [c \in 1..BOARD_SIZE |->
                IF r = 1 /\ c <= 4 THEN BLACK
                ELSE IF c = 1 /\ r <= 5 THEN WHITE ELSE EMPTY]],
   current_player |-> BLACK,
   game_status |-> ONGOING,
   move_count |-> 8,
   winner |-> None,
   last_move |-> <<4, 0>>]

\* data with one key given another value
With(data, key, value) ==
  [k \in DOMAIN data |-> IF k = key THEN value ELSE data[k]]

\* data less one key
Without(data, key) == [k \in DOMAIN data \ {key} |-> data[k]]

Object(data) == [kind |-> "object", data |-> data]

\* the contents STATE_FILE may have when a run starts
InitialFiles ==
  LET d == Encode(MidGame).data
  IN {Absent,
      [kind |-> "unopenable", data |-> NoData],
      [kind |-> "text", data |-> NoData],
      [kind |-> "list", data |-> NoData],
      Object(d),
      Object(With(d, "game_status", "bogus")),
      Object(With(d, "current_player", "green")),
      Object(With(d, "winner", "green")),
      Object(With(d, "current_player", EMPTY)),
      Object(With(d, "winner", EMPTY)),
      Object(With(d, "board", SubSeq(d.board, 1, BOARD_SIZE - 1))),
      Object(With(d, "board",
                  [d.board EXCEPT ![3] = SubSeq(d.board[3], 1, BOARD_SIZE - 1)])),
      Object(With(With(d, "board", SubSeq(d.board, 1, BOARD_SIZE - 1)),
                  "game_status", "bogus")),
      Object(With(d, "board", [d.board EXCEPT ![8][8] = "green"]))}
      \cup {Object(Without(d, key)) : key \in DOMAIN d}

StoreCells == {<<0, 4>>, <<5, 0>>, <<7, 7>>}

InitStore ==
  /\ game_state = Constructed
  /\ state_file \in InitialFiles
  /\ ret = None
  /\ log = <<>>
  /\ successes = 0
  /\ arena = StoreCells
  /\ seen = Unseen
  /\ handlers = NoHandlers
  /\ readme = NoReadme
  /\ coord_str = <<>>
  /\ coords = NoCoord
  /\ status_text = NoText

NextStore ==
  \/ LoadState
  \/ SaveState
  \/ ResetGame
  \/ \E rc \in Inputs : MakeMove(rc[1], rc[2])
  \/ \E rc \in Inputs : IsValidMove(rc[1], rc[2])

\* the engine and its state file
SpecStore == InitStore /\ [][NextStore]_vars

\* ------------------------------------------------- positions around a line

\* the cells the next move is placed on: the centre, and a cell next to each
\* of the four edges
Anchors == {<<7, 7>>, <<7, 1>>, <<7, 13>>, <<1, 7>>, <<13, 7>>}

\* the steps along a line, on either side of the anchor, that may hold a stone
Offsets == ((0 - Reach)..Reach) \ {0}

\* the cell k steps of d from rc
Step(rc, d, k) == <<rc[1] + k * d[1], rc[2] + k * d[2]>>

\* that cell is on the board
InLine(rc, d, k) ==
  /\ 0 <= rc[1] + k * d[1] /\ rc[1] + k * d[1] < BOARD_SIZE
  /\ 0 <= rc[2] + k * d[2] /\ rc[2] + k * d[2] < BOARD_SIZE

\* what a cell of the line holds that does not hold a black stone: a white
\* stone or nothing, each at some distance on either side
Gap(k) == IF (k < 0 /\ k % 2 = 1) \/ (k > 0 /\ k % 2 = 0) THEN WHITE ELSE EMPTY

\* cells far from the line and from each other, where the stones stand that
\* make up the numbers of an alternating game
Fillers(anchor) ==
  LET far == IF anchor[1] < 7 THEN 12 ELSE IF anchor[1] > 7 THEN 2 ELSE 0
  IN [i \in 1..16 |-> IF i <= 8 THEN <<IF anchor[1] > 7 THEN 0 ELSE 14,
                                        2 * (i - 1)>>
                      ELSE <<far, 2 * (i - 9)>>]

\* the position with Black to move in which the cells of the line through
\* anchor along d at the offsets of blacks hold black stones
LinePosition(anchor, d, blacks) ==
  LET line == {k \in Offsets : InLine(anchor, d, k)}
      whites == {k \in line \ blacks : Gap(k) = WHITE}
      nb == Cardinality(blacks)
      nw == Cardinality(whites)
      fill == Fillers(anchor)
      colour == IF nb < nw THEN BLACK ELSE WHITE
      filled == {fill[i] : i \in 1..(IF nb < nw THEN nw - nb ELSE nb - nw)}
      stone(rc) ==
        IF \E k \in blacks : Step(anchor, d, k) = rc THEN BLACK
        ELSE IF \E k \in whites : Step(anchor, d, k) = rc THEN WHITE
        ELSE IF rc \in filled THEN colour
        ELSE EMPTY
      total == IF nb < nw THEN 2 * nw ELSE 2 * nb
      white_cells == {Step(anchor, d, k) : k \in whites}
                       \cup (IF colour = WHITE THEN filled ELSE {})
  IN [board |-> [r \in 1..BOARD_SIZE |-> [c \in 1..BOARD_SIZE |->
                   stone(<<r - 1, c - 1>>)]],
      current_player |-> BLACK,
      game_status |-> ONGOING,
      move_count |-> total,
      winner |-> None,
      last_move |-> IF total = 0 THEN NoMove
                    ELSE CHOOSE rc \in white_cells : TRUE]

InitLines ==
  \E anchor \in Anchors : \E i \in 1..Len(directions) :
    \E blacks \in SUBSET {k \in Offsets : InLine(anchor, directions[i], k)} :
      /\ ~ \E k \in blacks : \A j \in 0..(WIN_COUNT - 1) : k + j \in blacks
      /\ game_state = LinePosition(anchor, directions[i], blacks)
      /\ state_file = Absent
      /\ ret = IF blacks = {} /\ game_state.move_count = 0 THEN None ELSE "True"
      /\ log = <<>>
      /\ successes = game_state.move_count
      /\ arena = {anchor}
      /\ seen = Unseen
      /\ handlers = NoHandlers
      /\ readme = NoReadme
      /\ coord_str = <<>>
      /\ coords = NoCoord
      /\ status_text = NoText

NextLines == \E rc \in arena : MakeMove(rc[1], rc[2])

\* one move, on a line of stones
SpecLines == InitLines /\ [][NextLines]_vars

\* -------------------------------------------------------------- the parsers

\* a Python string is the sequence of its characters, each a string of one
\* character

UpperCase ==
  <<"A", "B", "C", "D", "E", "F", "G", "H", "I", "J", "K", "L", "M",
    "N", "O", "P", "Q", "R", "S", "T", "U", "V", "W", "X", "Y", "Z">>

LowerCase ==
  <<"a", "b", "c", "d", "e", "f", "g", "h", "i", "j", "k", "l", "m",
    "n", "o", "p", "q", "r", "s", "t", "u", "v", "w", "x", "y", "z">>

Digits == <<"0", "1", "2", "3", "4", "5", "6", "7", "8", "9">>

Range(seq) == {seq[i] : i \in 1..Len(seq)}

IndexIn(seq, ch) == CHOOSE i \in 1..Len(seq) : seq[i] = ch

\* str.upper, str.isalpha, str.isdigit and str.isspace of one character
UpperChar(ch) ==
  IF ch \in Range(LowerCase) THEN UpperCase[IndexIn(LowerCase, ch)] ELSE ch

IsAlphaChar(ch) == ch \in Range(UpperCase) \cup Range(LowerCase)

IsDigitChar(ch) == ch \in Range(Digits)

IsSpaceChar(ch) == ch = " "

\* ord(ch) - ord('A') for a character that isalpha
OrdMinusA(ch) ==
  IF ch \in Range(UpperCase) THEN IndexIn(UpperCase, ch) - 1
  ELSE IndexIn(LowerCase, ch) + 31

upper(str) == [i \in 1..Len(str) |-> UpperChar(str[i])]

\* str.strip: the string less its leading and trailing white space
strip(str) ==
  LET inked == {i \in 1..Len(str) : ~ IsSpaceChar(str[i])}
  IN IF inked = {} THEN <<>>
     ELSE SubSeq(str, CHOOSE i \in inked : \A j \in inked : i <= j,
                      CHOOSE i \in inked : \A j \in inked : j <= i)

\* str.split(sep): the pieces of str between the occurrences of sep
RECURSIVE split(_, _)
split(str, sep) ==
  LET seps == {i \in 1..Len(str) : str[i] = sep}
  IN IF seps = {} THEN <<str>>
     ELSE LET i == CHOOSE k \in seps : \A j \in seps : k <= j
          IN <<SubSeq(str, 1, i - 1)>>
               \o split(SubSeq(str, i + 1, Len(str)), sep)

\* str.isdigit of a string: it is not empty and all its characters are digits
isdigit(str) == Len(str) > 0 /\ \A i \in 1..Len(str) : IsDigitChar(str[i])

\* int(str) of a string of digits
RECURSIVE int(_)
int(str) ==
  IF Len(str) = 0 THEN 0
  ELSE 10 * int(SubSeq(str, 1, Len(str) - 1))
         + (IndexIn(Digits, str[Len(str)]) - 1)

\* parse_coordinate with > for >= in the upper limit of col
ParseCoordinateColOffByOne(str) ==
  LET text == upper(strip(str))
      parts == split(text, ",")
  IN IF "," \notin Range(text) THEN NoCoord
     ELSE IF Len(parts) # 2 THEN NoCoord
     ELSE LET col_char == strip(parts[1])
              row_str == strip(parts[2])
          IN IF Len(col_char) # 1 \/ ~ IsAlphaChar(col_char[1]) THEN NoCoord
             ELSE IF OrdMinusA(col_char[1]) < 0
                     \/ OrdMinusA(col_char[1]) > BOARD_SIZE THEN NoCoord
             ELSE IF ~ isdigit(row_str) THEN NoCoord
             ELSE IF int(row_str) - 1 < 0 \/ int(row_str) - 1 >= BOARD_SIZE
               THEN NoCoord
             ELSE <<int(row_str) - 1, OrdMinusA(col_char[1])>>

\* parse_coordinate: the (row, col) tuple it returns, or None
parse_coordinate(str) ==
  LET text == upper(strip(str))
      parts == split(text, ",")
  IN IF "," \notin Range(text) THEN NoCoord
     ELSE IF Len(parts) # 2 THEN NoCoord
     ELSE LET col_char == strip(parts[1])
              row_str == strip(parts[2])
          IN IF Len(col_char) # 1 \/ ~ IsAlphaChar(col_char[1]) THEN NoCoord
             ELSE IF OrdMinusA(col_char[1]) < 0
                     \/ OrdMinusA(col_char[1]) >= BOARD_SIZE THEN NoCoord
             ELSE IF ~ isdigit(row_str) THEN NoCoord
             ELSE IF int(row_str) - 1 < 0 \/ int(row_str) - 1 >= BOARD_SIZE
               THEN NoCoord
             ELSE <<int(row_str) - 1, OrdMinusA(col_char[1])>>

\* the characters the strings given to the parsers are made of
InChars == {"A", "o", "P", "0", "1", "5", "6", ",", " ", "-"}

\* the strings of at most n characters
Strings(n) == UNION {[1..k -> InChars] : k \in 0..n}

\* the decimal numeral of n < 100
Numeral(n) ==
  IF n < 10 THEN <<Digits[n + 1]>>
  ELSE <<Digits[(n \div 10) + 1], Digits[(n % 10) + 1]>>

\* every letter, in either case, with every number up to MaxNumber
LetterNumber ==
  {<<letter, ",">> \o Numeral(n) :
     letter \in Range(UpperCase) \cup Range(LowerCase), n \in 0..MaxNumber}

InitParse ==
  /\ game_state = Constructed
  /\ state_file = Absent
  /\ ret = None
  /\ log = <<>>
  /\ successes = 0
  /\ arena = {}
  /\ seen = Unseen
  /\ handlers = NoHandlers
  /\ readme = NoReadme
  /\ coord_str \in Strings(MaxCoordLen) \cup LetterNumber
  /\ coords = NoCoord
  /\ status_text = NoText

ParseCoordinate ==
  /\ coords' = parse_coordinate(coord_str)
  /\ UNCHANGED <<game_state, state_file, ret, log, successes, arena, seen,
                 handlers, readme, coord_str, status_text>>

NextParse == ParseCoordinate

\* the parser, on every string
SpecParse == InitParse /\ [][NextParse]_vars

\* --------------------------------------------------- the command surface

\* the letters the patterns of _parse_move_from_title accept: [A-O]
PatternLetters == SubSeq(UpperCase, 1, 15)

\* the number of consecutive characters of str from position start on that
\* are in chars: what a greedy \s* or \d+ consumes there
SpanLen(str, start, chars) ==
  LET spans == {n \in 0..Len(str) :
                  \A k \in 0..(n - 1) :
                    start + k <= Len(str) /\ str[start + k] \in chars}
  IN CHOOSE n \in spans : \A m \in spans : m <= n

\* a match of ([A-O])<sep>(\d+) that begins at position i of str, as the
\* string "<letter>,<digits>" the code builds of its groups, or the empty
\* string when there is none; sep is "comma" for ,\s* , "space" for \s+ and
\* "none" for nothing; the letter matches in either case (re.IGNORECASE)
MatchAt(str, i, sep) ==
  LET gap == IF sep = "comma"
               THEN IF i + 1 <= Len(str) /\ str[i + 1] = ","
                      THEN 1 + SpanLen(str, i + 2, {" "}) ELSE -1
             ELSE IF sep = "space"
               THEN IF SpanLen(str, i + 1, {" "}) >= 1
                      THEN SpanLen(str, i + 1, {" "}) ELSE -1
             ELSE 0
      start == i + 1 + gap
      n == IF gap < 0 THEN 0 ELSE SpanLen(str, start, Range(Digits))
  IN IF UpperChar(str[i]) \in Range(PatternLetters) /\ n >= 1
       THEN <<UpperChar(str[i]), ",">> \o SubSeq(str, start, start + n - 1)
     ELSE <<>>

\* re.search: the leftmost match
search(str, sep) ==
  LET hits == {i \in 1..Len(str) : MatchAt(str, i, sep) # <<>>}
  IN IF hits = {} THEN <<>>
     ELSE MatchAt(str, CHOOSE i \in hits : \A j \in hits : i <= j, sep)

\* _parse_move_from_title without its first pattern
ParseMoveNoComma(title) ==
  LET text == strip(title)
  IN IF search(text, "space") # <<>>
       THEN parse_coordinate(search(text, "space"))
     ELSE IF search(text, "none") # <<>>
       THEN parse_coordinate(search(text, "none"))
     ELSE NoCoord

\* _parse_move_from_title: the patterns are tried in their order and the
\* first that matches anywhere in the title decides.  The last three patterns
\* ("play at A,1", "move A,1", "place A,1") end in the first one, so when one
\* of them matches the first has matched already: they never decide.
parse_move_from_title(title) ==
  LET text == strip(title)
  IN IF search(text, "comma") # <<>>
       THEN parse_coordinate(search(text, "comma"))
     ELSE IF search(text, "space") # <<>>
       THEN parse_coordinate(search(text, "space"))
     ELSE IF search(text, "none") # <<>>
       THEN parse_coordinate(search(text, "none"))
     ELSE NoCoord

\* One record per invocation of main: cmd and title are its arguments, pc
\* its position, game_state the GameState of its OmokGameHandler, generator
\* the GameState of the TextBoardGenerator its ReadmeUpdater creates, coords
\* the local variable of process_move, section what the updater has rendered,
\* out the lines printed and result the value the command returned.  Two
\* fields are history: ops lists the calls of load_state, make_move and
\* save_state made on behalf of the invocation, by the handler or by the
\* updater, and loaded is the file its own load_state call found.

NoSection == [board |-> <<>>, status |-> "", move_count |-> 0]

ErrorText == "Error: Could not load game state"

Invocation(cmd, title) ==
  [cmd |-> cmd, title |-> title, pc |-> "start", game_state |-> Constructed,
   generator |-> Constructed, coords |-> NoCoord, section |-> NoSection,
   out |-> <<>>, result |-> None, ops |-> <<>>, loaded |-> Unseen]

\* the command returns value after printing lines
Finish(h, lines, value) ==
  [h EXCEPT !.out = h.out \o lines, !.result = value, !.pc = "done"]

\* process_move from its first line to the make_move call: the handler and
\* the file it leaves
ProcessMoveBegin(h, file) ==
  LET ld == load_state(h.game_state, file)
      h1 == [h EXCEPT !.game_state = ld.self,
                      !.out = <<"Processing move from issue">> \o ld.log,
                      !.ops = h.ops \o <<"load_state">>,
                      !.loaded = file]
      cs == parse_move_from_title(h.title)
      h2 == [h1 EXCEPT !.coords = cs,
                       !.out = h1.out \o <<"Parsed coordinates">>]
      mv == make_move(ld.self, cs[1], cs[2])
  IN IF ld.ret \notin {"True", "False"}
       THEN [h |-> Finish(h1, <<"Error processing move">>, "False"),
             file |-> ld.file]
     ELSE IF ld.ret = "False"
       THEN [h |-> Finish(h1, <<"Failed to load game state">>, "False"),
             file |-> ld.file]
     ELSE IF ld.self.game_status # ONGOING
       THEN [h |-> Finish(h1, <<"Game is already finished",
                                "Use workflow dispatch with reset=true">>,
                          "False"),
             file |-> ld.file]
     ELSE IF cs = NoCoord
       THEN [h |-> Finish(h1, <<"Invalid move format",
                                "Valid coordinates: A-O (columns), 1-15 (rows)">>,
                          "False"),
             file |-> ld.file]
     ELSE IF is_valid_move(ld.self, cs[1], cs[2]) = "IndexError"
       THEN [h |-> Finish(h2, <<"Error processing move">>, "False"),
             file |-> ld.file]
     ELSE IF is_valid_move(ld.self, cs[1], cs[2]) = "False"
       THEN [h |-> Finish(h2, IF Cell(ld.self.board, cs[1], cs[2]) # EMPTY
                                THEN <<"Position is already occupied!">>
                              ELSE <<"Invalid move at">>,
                          "False"),
             file |-> ld.file]
     ELSE IF mv.ret # "True"
       THEN [h |-> Finish([h2 EXCEPT !.ops = h2.ops \o <<"make_move">>],
                          <<"Failed to make move at">>, "False"),
             file |-> ld.file]
     ELSE [h |-> [h2 EXCEPT !.game_state = mv.self,
                            !.ops = h2.ops \o <<"make_move">>,
                            !.out = h2.out \o <<"Move successful!">>,
                            !.pc = "save"],
           file |-> ld.file]

\* OmokGameHandler.reset_game up to its save_state call
ResetBegin(h, file) ==
  LET sv == save_state(reset_game(h.game_state), file)
      h1 == [h EXCEPT !.game_state = reset_game(h.game_state),
                      !.out = <<"Resetting game...">> \o sv.log,
                      !.ops = h.ops \o <<"save_state">>]
  IN IF sv.ret = "False"
       THEN [h |-> Finish(h1, <<"Failed to save reset state">>, "False"),
             file |-> sv.file]
     ELSE [h |-> [h1 EXCEPT !.pc = "readme"], file |-> sv.file]

\* show_status
ShowStatus(h, file) ==
  LET ld == load_state(h.game_state, file)
      h1 == [h EXCEPT !.game_state = ld.self,
                      !.out = ld.log,
                      !.ops = h.ops \o <<"load_state">>,
                      !.loaded = file]
  IN IF ld.ret \notin {"True", "False"}
       THEN [h |-> Finish(h1, <<"Error showing status">>, "False"),
             file |-> ld.file]
     ELSE IF ld.ret = "False"
       THEN [h |-> Finish(h1, <<"Failed to load game state">>, "False"),
             file |-> ld.file]
     ELSE [h |-> Finish(h1, <<"Current Game Status:", "Status", "Moves played">>,
                        "True"),
           file |-> ld.file]

\* process_move at its save_state call
ProcessMoveSave(h, file) ==
  LET sv == save_state(h.game_state, file)
      h1 == [h EXCEPT !.out = h.out \o sv.log,
                      !.ops = h.ops \o <<"save_state">>]
  IN IF sv.ret = "False"
       THEN [h |-> Finish(h1, <<"Failed to save game state">>, "False"),
             file |-> sv.file]
     ELSE [h |-> [h1 EXCEPT !.pc = "readme"], file |-> sv.file]

\* what the command prints when update_readme_with_text_board returns False
UpdateFailed(h, lines) ==
  Finish(h, lines \o <<"Failed to update README.md",
                       IF h.cmd = "reset"
                         THEN "Failed to update README with text board after reset"
                       ELSE "Failed to update README with text board">>,
         "False")

\* update_readme_with_text_board up to the end of _read_readme
ReadReadme(h, file) ==
  LET h1 == [h EXCEPT !.out = h.out \o <<"Updating README.md with text board...">>]
  IN IF file.kind = "absent"
       THEN UpdateFailed(h1, <<"README file not found">>)
     ELSE [h1 EXCEPT !.pc = "render1"]

\* one of the three load_state calls of the updater's generator: the first
\* in _generate_board_section, the second in generate_board_text, the third
\* in generate_status_message
Render(h, file) ==
  LET ld == load_state(h.generator, file)
      h1 == [h EXCEPT !.generator = ld.self,
                      !.out = h.out \o ld.log,
                      !.ops = h.ops \o <<"load_state">>]
  IN IF ld.ret \notin {"True", "False"}
       THEN [h |-> UpdateFailed(h1, <<"Error updating README">>),
             file |-> ld.file]
     ELSE IF h.pc = "render1"
       THEN [h |-> IF ld.ret = "False"
                     THEN [h1 EXCEPT !.section.status = ErrorText,
                                     !.pc = "write"]
                   ELSE [h1 EXCEPT !.pc = "render2"],
             file |-> ld.file]
     ELSE IF h.pc = "render2"
       THEN [h |-> [h1 EXCEPT !.section.board =
                                IF ld.ret = "False" THEN <<>>
                                ELSE ld.self.board,
                              !.pc = "render3"],
             file |-> ld.file]
     ELSE [h |-> [h1 EXCEPT !.section.status =
                              IF ld.ret = "False" THEN ErrorText
                              ELSE ld.self.game_status,
                            !.section.move_count =
                              IF ld.ret = "False" THEN 0
                              ELSE ld.self.move_count,
                            !.pc = "write"],
           file |-> ld.file]

\* _replace_board_section and _write_readme, and the rest of the command
WriteReadme(h, file) ==
  [h |-> Finish(h, <<"README.md updated successfully!">>
                     \o IF h.cmd = "reset" THEN <<"Game reset successfully!">>
                        ELSE <<"Status">>,
                "True"),
   file |-> IF file.kind = "marked" THEN [file EXCEPT !.section = h.section]
            ELSE file]

\* ---- the actions of the command surface

HandlerStart(i) ==
  /\ handlers[i].pc = "start"
  /\ \E out \in {IF handlers[i].cmd = "move"
                   THEN ProcessMoveBegin(handlers[i], state_file)
                 ELSE IF handlers[i].cmd = "reset"
                   THEN ResetBegin(handlers[i], state_file)
                 ELSE ShowStatus(handlers[i], state_file)} :
       /\ handlers' = [handlers EXCEPT ![i] = out.h]
       /\ state_file' = out.file
  /\ UNCHANGED <<game_state, ret, log, successes, arena, seen, readme,
                 coord_str, coords, status_text>>

HandlerSave(i) ==
  /\ handlers[i].pc = "save"
  /\ \E out \in {ProcessMoveSave(handlers[i], state_file)} :
       /\ handlers' = [handlers EXCEPT ![i] = out.h]
       /\ state_file' = out.file
  /\ UNCHANGED <<game_state, ret, log, successes, arena, seen, readme,
                 coord_str, coords, status_text>>

HandlerReadReadme(i) ==
  /\ handlers[i].pc = "readme"
  /\ handlers' = [handlers EXCEPT ![i] = ReadReadme(handlers[i], readme)]
  /\ UNCHANGED <<game_state, state_file, ret, log, successes, arena, seen,
                 readme, coord_str, coords, status_text>>

HandlerRender(i) ==
  /\ handlers[i].pc \in {"render1", "render2", "render3"}
  /\ \E out \in {Render(handlers[i], state_file)} :
       /\ handlers' = [handlers EXCEPT ![i] = out.h]
       /\ state_file' = out.file
  /\ UNCHANGED <<game_state, ret, log, successes, arena, seen, readme,
                 coord_str, coords, status_text>>

HandlerWriteReadme(i) ==
  /\ handlers[i].pc = "write"
  /\ \E out \in {WriteReadme(handlers[i], readme)} :
       /\ handlers' = [handlers EXCEPT ![i] = out.h]
       /\ readme' = out.file
  /\ UNCHANGED <<game_state, state_file, ret, log, successes, arena, seen,
                 coord_str, coords, status_text>>

\* the invocations that may overlap
Handlers == {1, 2}

\* issue titles: "E,1" completes Black's five in MidGame, "H,8" and "F1" are
\* other free cells, "a 2" is a cell White holds, and the last three name no
\* cell of the board
Titles ==
  {<<"E", ",", "1">>, <<"H", ",", "8">>, <<"F", "1">>, <<"a", " ", "2">>,
   <<"P", ",", "1">>, <<"A", ",", "1", "6">>, <<"h", "i">>}

Invocations ==
  {Invocation("move", title) : title \in Titles}
    \cup {Invocation("reset", <<>>), Invocation("status", <<>>)}

\* MidGame after Black's move at (0, 4): Black has won
BlackWon == make_move(MidGame, 0, 4).self

\* the contents STATE_FILE may have when the invocations start
HandlerFiles ==
  {Absent, Encode(MidGame), Encode(BlackWon),
   [kind |-> "text", data |-> NoData], [kind |-> "list", data |-> NoData]}

\* README_FILE with the two markers and an older section between them
MarkedReadme == [kind |-> "marked", section |-> NoSection]

InitHandler ==
  /\ game_state = Constructed
  /\ state_file \in HandlerFiles
  /\ ret = None
  /\ log = <<>>
  /\ successes = 0
  /\ arena = {}
  /\ seen = Unseen
  /\ handlers \in [Handlers -> Invocations]
  /\ readme \in {NoReadme, MarkedReadme}
  /\ coord_str = <<>>
  /\ coords = NoCoord
  /\ status_text = NoText

NextHandler ==
  \E i \in Handlers :
    \/ HandlerStart(i)
    \/ HandlerSave(i)
    \/ HandlerReadReadme(i)
    \/ HandlerRender(i)
    \/ HandlerWriteReadme(i)

\* invocations of the command surface that share the two files
SpecHandler == InitHandler /\ [][NextHandler]_vars

\* ------------------------------------------------------ the status string

\* str.title() of a player's value
str_title(str) ==
  CASE str = BLACK -> "Black"
    [] str = WHITE -> "White"
    [] str = EMPTY -> "Empty"
    [] OTHER -> str

\* get_status_message: the one-line status of the engine's state, as the
\* sequence of the parts the code formats into it
get_status_message(self) ==
  IF self.game_status = BLACK_WINS THEN <<"Black wins!">>
  ELSE IF self.game_status = WHITE_WINS THEN <<"White wins!">>
  ELSE IF self.game_status = DRAW THEN <<"It's a draw!">>
  ELSE LET current == IF self.current_player = BLACK THEN "Black" ELSE "White"
       IN <<"Current turn: ", current, " (Move #",
            ToString(self.move_count + 1), ")">>

\* get_current_game_info of src/embed_svg.py and src/update_readme.py (the
\* two are the same but for what they print): the status text derived from
\* the file; any exception gives the text of a new game
get_current_game_info(file) ==
  IF file.kind # "object"
    THEN <<"Current turn: ", "Black", " (Move #", "1", ")">>
  ELSE LET move_count == Get(file.data, "move_count", 0)
           current_player == Get(file.data, "current_player", BLACK)
           game_status == Get(file.data, "game_status", ONGOING)
           winner == Get(file.data, "winner", JsonNull)
       IN IF game_status = "finished" /\ Truthy(winner)
            THEN <<"Game Over - ", str_title(winner), " Wins! (Total moves: ",
                   ToString(move_count), ")">>
          ELSE <<"Current turn: ", str_title(current_player), " (Move #",
                 ToString(move_count + 1), ")">>

\* generate_status_message, "Last move": the player it names, who is derived
\* from the parity of move_count
last_player(self) == IF self.move_count % 2 = 1 THEN "Black" ELSE "White"

GetStatusMessage ==
  /\ status_text' = get_status_message(game_state)
  /\ UNCHANGED <<game_state, state_file, ret, log, successes, arena, seen,
                 handlers, readme, coord_str, coords>>

GetCurrentGameInfo ==
  /\ status_text' = get_current_game_info(state_file)
  /\ UNCHANGED <<game_state, state_file, ret, log, successes, arena, seen,
                 handlers, readme, coord_str, coords>>

InitStatus ==
  /\ game_state = LateGame
  /\ state_file = Absent
  /\ ret = "True"
  /\ log = <<>>
  /\ successes = LateGame.move_count
  /\ arena = HoleSet
  /\ seen = Unseen
  /\ handlers = NoHandlers
  /\ readme = NoReadme
  /\ coord_str = <<>>
  /\ coords = NoCoord
  /\ status_text = NoText

NextStatus ==
  \/ \E rc \in arena : MakeMove(rc[1], rc[2])
  \/ SaveState
  \/ GetStatusMessage
  \/ GetCurrentGameInfo

\* the end of a game, saved and described at any point
SpecStatus == InitStatus /\ [][NextStatus]_vars

\* ------------------------------------------------------------- properties

\* the board has been built, by reset_game or by load_state
Built == Len(game_state.board) = BOARD_SIZE

InBoard(r, c) == 0 <= r /\ r < BOARD_SIZE /\ 0 <= c /\ c < BOARD_SIZE

Mark(rc) == game_state.board[rc[1] + 1][rc[2] + 1]

\* the four lines through a cell
Axes == {<<0, 1>>, <<1, 0>>, <<1, 1>>, <<1, -1>>}

\* five consecutive cells of one line, the cell rc among them, all hold p
FiveThrough(board, p, rc) ==
  \E d \in Axes : \E j \in 0..4 : \A i \in 0..4 :
    LET r == rc[1] + (i - j) * d[1]
        c == rc[2] + (i - j) * d[2]
    IN InBoard(r, c) /\ board[r + 1][c + 1] = p

\* the number of cells of the board that are not empty
StoneCount(board) ==
  Cardinality({rc \in (1..Len(board)) \X (1..BOARD_SIZE) :
                 rc[2] <= Len(board[rc[1]]) /\ board[rc[1]][rc[2]] # EMPTY})

WinsOf(p) == IF p = BLACK THEN BLACK_WINS ELSE WHITE_WINS

\* C1: a make_move(row, col) that returns True found (row, col) empty, leaves
\* a board that differs from the one before in that cell only, which now
\* holds the mark of the player whose turn it was, sets last_move to
\* (row, col) and adds one to move_count; and after Black at (7, 7) and White
\* at (7, 8) from the empty board it is Black's turn in an ongoing game.
C1_MoveEffect ==
  /\ \A rc \in Inputs :
       LET out == make_move(game_state, rc[1], rc[2])
       IN out.ret = "True" =>
            /\ Cell(game_state.board, rc[1], rc[2]) = EMPTY
            /\ game_state.current_player \in {BLACK, WHITE}
            /\ out.self.board =
                 [game_state.board EXCEPT
                    ![rc[1] + 1][rc[2] + 1] = game_state.current_player]
            /\ out.self.last_move = rc
            /\ out.self.move_count = game_state.move_count + 1
  /\ (Built /\ game_state.move_count = 2
         /\ Mark(<<7, 7>>) = BLACK /\ Mark(<<7, 8>>) = WHITE)
       => (game_state.current_player = BLACK /\ game_state.game_status = ONGOING)

C1_Witness ==
  /\ Built
  /\ game_state.move_count = 2
  /\ Mark(<<7, 7>>) = BLACK
  /\ Mark(<<7, 8>>) = WHITE
  /\ game_state.last_move = <<7, 8>>
  /\ ret = "True"

\* C2: when the stone of the last successful move lies in five consecutive
\* stones of its colour along one of the four lines, the status is that
\* colour's win, the winner is that colour and it is still that colour's turn.
C2_FiveWins ==
  (Built /\ game_state.last_move # NoMove
     /\ Mark(game_state.last_move) \in {BLACK, WHITE}
     /\ FiveThrough(game_state.board, Mark(game_state.last_move),
                    game_state.last_move))
  => /\ game_state.game_status = WinsOf(Mark(game_state.last_move))
     /\ game_state.winner = Mark(game_state.last_move)
     /\ game_state.current_player = Mark(game_state.last_move)

\* Black has completed the anti-diagonal (10, 10) .. (14, 6) in its middle
C2_Witness ==
  /\ Built
  /\ game_state.last_move = <<12, 8>>
  /\ \A k \in 0..4 : Mark(<<10 + k, 10 - k>>) = BLACK
  /\ game_state.game_status = BLACK_WINS
  /\ ret = "True"

\* C3: on a built board, a make_move(row, col) for which is_valid_move(row,
\* col) is false returns False and leaves every field of the state as it was.
C3_InvalidMoveRejected ==
  Built =>
    \A rc \in Inputs :
      is_valid_move(game_state, rc[1], rc[2]) = "False" =>
        /\ make_move(game_state, rc[1], rc[2]).ret = "False"
        /\ make_move(game_state, rc[1], rc[2]).self = game_state

\* a call has failed on a finished game
C3_Witness ==
  /\ Built
  /\ game_state.game_status = BLACK_WINS
  /\ ret = "False"

\* C4: on a built board is_valid_move(row, col) returns True exactly when the
\* status is ongoing, row and col lie in [0, BOARD_SIZE) and the cell is
\* empty, and False otherwise; the call changes no field of the state.
C4_ValidIff ==
  /\ [](Built =>
          \A rc \in Inputs :
            /\ is_valid_move(game_state, rc[1], rc[2]) \in {"True", "False"}
            /\ is_valid_move(game_state, rc[1], rc[2]) = "True"
                 <=> /\ game_state.game_status = ONGOING
                     /\ InBoard(rc[1], rc[2])
                     /\ Mark(rc) = EMPTY)
  /\ [][\/ UNCHANGED <<game_state, state_file>>
        \/ ~ \E rc \in Inputs : IsValidMove(rc[1], rc[2])]_vars

\* is_valid_move has answered False on a finished game that has an empty cell
C4_Witness ==
  /\ Built
  /\ game_state.game_status # ONGOING
  /\ \E rc \in arena : Mark(rc) = EMPTY
  /\ ret = "False"

\* C5: move_count is the number of successful moves since the reset and the
\* number of cells that are not empty, and it only ever decreases by a reset.
C5_MoveCount ==
  /\ [](/\ game_state.move_count = successes
        /\ game_state.move_count = StoneCount(game_state.board))
  /\ [][game_state'.move_count < game_state.move_count
          => game_state' = reset_game(game_state)]_vars

\* four moves have succeeded and a fifth call has failed
C5_Witness ==
  /\ successes = 4
  /\ game_state.move_count = 4
  /\ ret = "False"

\* the other of the two players
Other(p) == IF p = BLACK THEN WHITE ELSE BLACK

\* C6: from a reset, the i-th successful move places a black stone when i is
\* odd and a white one when i is even; while the game is ongoing it is
\* White's turn after an odd number of successful moves and Black's after an
\* even number; a make_move that fails leaves current_player as it was, and
\* so does every make_move once the status is not ongoing.
C6_Alternation ==
  /\ game_state.last_move # NoMove =>
       Mark(game_state.last_move) = IF successes % 2 = 1 THEN BLACK ELSE WHITE
  /\ game_state.game_status = ONGOING =>
       game_state.current_player = IF successes % 2 = 0 THEN BLACK ELSE WHITE
  /\ Built =>
       \A rc \in Inputs :
         LET out == make_move(game_state, rc[1], rc[2])
         IN /\ out.ret = "True" =>
                 /\ Cell(out.self.board, rc[1], rc[2])
                      = IF (successes + 1) % 2 = 1 THEN BLACK ELSE WHITE
                 /\ out.self.game_status = ONGOING =>
                      out.self.current_player
                        = Other(game_state.current_player)
            /\ out.ret # "True" =>
                 out.self.current_player = game_state.current_player
            /\ game_state.game_status # ONGOING =>
                 out.self.current_player = game_state.current_player

\* three moves have succeeded: a black stone was placed last, White is to move
C6_Witness ==
  /\ successes = 3
  /\ game_state.game_status = ONGOING
  /\ game_state.current_player = WHITE
  /\ Mark(game_state.last_move) = BLACK
  /\ ret = "True"

\* C7: the winner is Black exactly when the status is black_wins, White
\* exactly when it is white_wins and None exactly when it is ongoing or draw;
\* a winner, once set, stays the same until the state is reset.
C7_WinnerMatchesStatus ==
  /\ [](/\ game_state.winner = BLACK <=> game_state.game_status = BLACK_WINS
        /\ game_state.winner = WHITE <=> game_state.game_status = WHITE_WINS
        /\ game_state.winner = None
             <=> game_state.game_status \in {ONGOING, DRAW})
  /\ [][game_state.winner # None =>
          \/ game_state'.winner = game_state.winner
          \/ game_state' = reset_game(game_state)]_vars

\* White has won and a later call has failed
C7_Witness ==
  /\ game_state.game_status = WHITE_WINS
  /\ game_state.winner = WHITE
  /\ ret = "False"

\* some line of the board holds five consecutive stones of p
HasFive(board, p) ==
  \E r \in 0..(BOARD_SIZE - 1) : \E c \in 0..(BOARD_SIZE - 1) :
    board[r + 1][c + 1] = p /\ FiveThrough(board, p, <<r, c>>)

\* C8: when move_count is BOARD_SIZE * BOARD_SIZE the status is not ongoing:
\* if the stone placed last completed five in a line the status is the win
\* of its colour, and if not the status is draw and the winner None; either
\* way current_player is still the player who placed it.
C8_FullBoard ==
  (Built /\ game_state.move_count = BOARD_SIZE * BOARD_SIZE) =>
    /\ game_state.game_status # ONGOING
    /\ game_state.current_player = Mark(game_state.last_move)
    /\ IF FiveThrough(game_state.board, Mark(game_state.last_move),
                      game_state.last_move)
         THEN /\ game_state.game_status = WinsOf(Mark(game_state.last_move))
              /\ game_state.winner = Mark(game_state.last_move)
         ELSE /\ game_state.game_status = DRAW
              /\ game_state.winner = None

\* the board is full without five in a line anywhere: a draw
C8_Witness ==
  /\ Built
  /\ game_state.move_count = BOARD_SIZE * BOARD_SIZE
  /\ ~ HasFive(game_state.board, BLACK)
  /\ ~ HasFive(game_state.board, WHITE)
  /\ game_state.game_status = DRAW
  /\ game_state.winner = None
  /\ ret = "True"

\* the stone that filled the board completed Black's diagonal: a win
C8_WitnessLastCellWin ==
  /\ Built
  /\ game_state.move_count = BOARD_SIZE * BOARD_SIZE
  /\ game_state.game_status = BLACK_WINS

\* C9: a save_state or is_valid_move call never changes the status, a
\* make_move call does not change a status that is not ongoing, and a status
\* leaves ongoing only in a make_move call that returns True (load_state,
\* which installs the status of the file, aside).
C9_StatusMonotonic ==
  [][/\ SaveState => game_state'.game_status = game_state.game_status
     /\ (\E rc \in Inputs : IsValidMove(rc[1], rc[2]))
          => game_state'.game_status = game_state.game_status
     /\ (game_state.game_status # ONGOING
           /\ \E rc \in Inputs : MakeMove(rc[1], rc[2]))
          => game_state'.game_status = game_state.game_status
     /\ (game_state.game_status = ONGOING
           /\ game_state'.game_status # ONGOING)
          => \/ ret' = "True" /\ \E rc \in Inputs : MakeMove(rc[1], rc[2])
             \/ LoadState]_vars

\* a finished game has been saved and a later call has failed
C9_Witness ==
  /\ game_state.game_status \in {BLACK_WINS, WHITE_WINS}
  /\ state_file = Encode(game_state)
  /\ ret = "False"

\* the file is not JSON, is JSON of the wrong shape, or holds a value outside
\* an enumeration
Malformed(file) ==
  \/ file.kind \in {"text", "list"}
  \/ /\ file.kind = "object"
     /\ \/ EnumError(file.data)
        \/ BadBoardSize(Get(file.data, "board", <<>>))

\* C10: load_state of a malformed file leaves the reset state in memory and
\* in the file, and returns True.
C10_MalformedLoadSucceeds ==
  [][(Malformed(state_file) /\ LoadState) =>
       /\ game_state' = reset_game(game_state)
       /\ state_file' = Encode(reset_game(game_state))
       /\ ret' = "True"]_vars

\* the file holds a JSON object whose board is not BOARD_SIZE rows of
\* BOARD_SIZE columns each (a missing board is the empty list to the code)
WrongSize(file) ==
  /\ file.kind = "object"
  /\ LET board == IF "board" \in DOMAIN file.data THEN file.data.board
                   ELSE <<>>
     IN ~ /\ Len(board) = BOARD_SIZE
          /\ \A r \in 1..BOARD_SIZE : Len(board[r]) = BOARD_SIZE

\* C11: a load_state that finds a JSON object whose board is not BOARD_SIZE
\* rows of BOARD_SIZE columns returns a boolean and leaves the reset state,
\* and nothing of the file, in memory and the reset state in the file.
C11_WrongSizeResets ==
  [][(WrongSize(state_file) /\ LoadState) =>
       /\ game_state' = reset_game(game_state)
       /\ game_state'.board = EmptyBoard
       /\ game_state'.move_count = 0
       /\ game_state'.last_move = NoMove
       /\ state_file' = Encode(reset_game(game_state))
       /\ ret' \in {"True", "False"}]_vars

\* load_state has found the mid-game record with one row a cell short
C11_Witness ==
  /\ seen.kind = "object"
  /\ "board" \in DOMAIN seen.data
  /\ Len(seen.data.board) = BOARD_SIZE
  /\ \E r \in 1..BOARD_SIZE : Len(seen.data.board[r]) = BOARD_SIZE - 1
  /\ seen.data.move_count = 8
  /\ game_state = reset_game(game_state)
  /\ state_file = Encode(game_state)
  /\ ret = "True"

\* the fields a persisted record must have
RequiredFields ==
  {"board", "current_player", "game_status", "move_count", "winner",
   "last_move"}

\* the file holds a JSON object that lacks a required field or holds a value
\* outside the enumeration of a field, a cell of the board included
Incomplete(file) ==
  /\ file.kind = "object"
  /\ \/ \E key \in RequiredFields : key \notin DOMAIN file.data
     \/ EnumError(file.data)
     \/ /\ "board" \in DOMAIN file.data
        /\ \E r \in 1..Len(file.data.board) :
             \E c \in 1..Len(file.data.board[r]) :
               file.data.board[r][c] \notin Player

\* C12: a load_state that finds a record lacking a required field or holding
\* a value outside an enumeration leaves the reset state in memory: it never
\* accepts the record.
C12_IncompleteRejected ==
  [][(Incomplete(state_file) /\ LoadState) =>
       game_state' = reset_game(game_state)]_vars

\* C13: a load_state that finds no file leaves the reset state in memory,
\* creates the file with the reset state in it, and returns True.
C13_AbsentCreates ==
  [][(state_file.kind = "absent" /\ LoadState) =>
       /\ game_state' = reset_game(game_state)
       /\ game_state'.board = EmptyBoard
       /\ game_state'.current_player = BLACK
       /\ game_state'.game_status = ONGOING
       /\ game_state'.move_count = 0
       /\ game_state'.winner = None
       /\ game_state'.last_move = NoMove
       /\ state_file'.kind = "object"
       /\ state_file' = Encode(game_state')
       /\ ret' = "True"]_vars

\* load_state has found no file and has created it
C13_Witness ==
  /\ seen = Absent
  /\ game_state = reset_game(game_state)
  /\ state_file = Encode(game_state)
  /\ ret = "True"

\* C14: when the file holds what save_state writes of the state in memory,
\* a load_state returns True and leaves every field of that state as it is.
C14_SaveLoadRoundTrip ==
  [][(state_file = Encode(game_state) /\ LoadState) =>
       /\ game_state' = game_state
       /\ ret' = "True"]_vars

\* C15: a load_state or save_state call ends in a returned boolean, whatever
\* the file is: no exception escapes it.
C15_NoEscape ==
  [][(LoadState \/ SaveState) => ret' \in {"True", "False"}]_vars

\* the pieces of a string around its only comma, white space removed
LetterPart(str) == strip(SubSeq(str, 1, IndexIn(str, ",") - 1))

NumberPart(str) == strip(SubSeq(str, IndexIn(str, ",") + 1, Len(str)))

\* C18: parse_coordinate returns (number - 1, index of the letter) for a
\* letter among the first BOARD_SIZE of the alphabet, in either case, and a
\* number in 1 .. BOARD_SIZE, and None for every other letter or number;
\* what it returns that is not None has 0 <= row < BOARD_SIZE and
\* 0 <= col < BOARD_SIZE, and is the letter and the number of the string.
C18_ParseCoordinate ==
  /\ [](coords # NoCoord =>
          /\ Len(coords) = 2
          /\ InBoard(coords[1], coords[2])
          /\ Cardinality({i \in 1..Len(coord_str) : coord_str[i] = ","}) = 1
          /\ LetterPart(coord_str) \in
               {<<UpperCase[coords[2] + 1]>>, <<LowerCase[coords[2] + 1]>>}
          /\ isdigit(NumberPart(coord_str))
          /\ int(NumberPart(coord_str)) = coords[1] + 1)
  /\ [][ParseCoordinate =>
          \A k \in 1..Len(UpperCase) : \A n \in 0..MaxNumber :
            coord_str \in {<<UpperCase[k], ",">> \o Numeral(n),
                           <<LowerCase[k], ",">> \o Numeral(n)}
            => coords' = IF k <= BOARD_SIZE /\ 1 <= n /\ n <= BOARD_SIZE
                         THEN <<n - 1, k - 1>> ELSE NoCoord]_vars

\* "o,15" has been parsed to the last row and the last column
C18_Witness ==
  /\ coord_str = <<"o", ",", "1", "5">>
  /\ coords = <<BOARD_SIZE - 1, BOARD_SIZE - 1>>

\* the greatest n for which the n cells next to rc in the direction d, on
\* the sign side, are cells of the board that hold p
Stretch(board, p, rc, d, sign) ==
  LET holds(k) == /\ InBoard(rc[1] + sign * k * d[1], rc[2] + sign * k * d[2])
                  /\ board[rc[1] + sign * k * d[1] + 1]
                          [rc[2] + sign * k * d[2] + 1] = p
      reach == {n \in 0..BOARD_SIZE : \A k \in 1..n : holds(k)}
  IN CHOOSE n \in reach : \A m \in reach : m <= n

\* the length of the maximal run of p through rc along d, rc counted once
RunLength(board, p, rc, d) ==
  1 + Stretch(board, p, rc, d, 1) + Stretch(board, p, rc, d, -1)

\* C19: check_win(row, col), run right after the mover's stone is placed at
\* (row, col), is true exactly when along one of the four lines the maximal
\* run of the mover's stones through (row, col), the stone counted once and
\* the run ended by the edge or by a cell without the mover's mark, is
\* WIN_COUNT or more long; and so the status after a successful move is the
\* mover's win exactly then, for runs longer than WIN_COUNT too.
C19_CheckWinIff ==
  /\ \A rc \in arena :
       is_valid_move(game_state, rc[1], rc[2]) = "True" =>
         LET placed == PlaceStone(game_state, rc[1], rc[2])
         IN check_win(placed, rc[1], rc[2])
              <=> \E d \in Axes :
                    RunLength(placed.board, game_state.current_player, rc, d)
                      >= WIN_COUNT
  /\ (ret = "True" /\ game_state.last_move \in arena) =>
       (game_state.game_status = WinsOf(Mark(game_state.last_move))
          <=> \E d \in Axes :
                RunLength(game_state.board, Mark(game_state.last_move),
                          game_state.last_move, d) >= WIN_COUNT)

\* the stone placed last joined two runs to one of more than WIN_COUNT stones
\* and its colour has won
C19_Witness ==
  /\ ret = "True"
  /\ game_state.last_move \in arena
  /\ \E d \in Axes :
       /\ RunLength(game_state.board, BLACK, game_state.last_move, d)
            > WIN_COUNT
       /\ Stretch(game_state.board, BLACK, game_state.last_move, d, 1) > 0
       /\ Stretch(game_state.board, BLACK, game_state.last_move, d, -1) > 0
  /\ game_state.game_status = BLACK_WINS

\* the stone placed last made a run of WIN_COUNT - 1 stones that a white
\* stone ends, and the game goes on
C19_WitnessFour ==
  /\ ret = "True"
  /\ game_state.last_move \in arena
  /\ \E d \in Axes :
       /\ RunLength(game_state.board, BLACK, game_state.last_move, d)
            = WIN_COUNT - 1
       /\ \E k \in 1..WIN_COUNT :
            /\ InBoard(game_state.last_move[1] - k * d[1],
                       game_state.last_move[2] - k * d[2])
            /\ Mark(<<game_state.last_move[1] - k * d[1],
                      game_state.last_move[2] - k * d[2]>>) = WHITE
            /\ Stretch(game_state.board, BLACK, game_state.last_move, d, -1)
                 = k - 1
  /\ game_state.game_status = ONGOING

\* the cell each title of Titles names, read by hand
Meaning(title) ==
  IF title = <<"E", ",", "1">> THEN <<0, 4>>
  ELSE IF title = <<"H", ",", "8">> THEN <<7, 7>>
  ELSE IF title = <<"F", "1">> THEN <<0, 5>>
  ELSE IF title = <<"a", " ", "2">> THEN <<1, 0>>
  ELSE NoCoord

\* the status and the board of the game the load of h found: those of the
\* record in the file, or of a new game where there was no file
FoundStatus(h) ==
  IF h.loaded.kind = "absent" THEN ONGOING ELSE h.loaded.data.game_status

FoundBoard(h) ==
  IF h.loaded.kind = "absent" THEN EmptyBoard ELSE h.loaded.data.board

\* the mistake of the invocation h, or "none"
Mistake(h) ==
  IF FoundStatus(h) # ONGOING THEN "finished"
  ELSE IF Meaning(h.title) = NoCoord THEN "coordinate"
  ELSE IF FoundBoard(h)[Meaning(h.title)[1] + 1][Meaning(h.title)[2] + 1]
            # EMPTY THEN "occupied"
  ELSE "none"

\* the line that tells of each mistake
MistakeLine(mistake) ==
  IF mistake = "finished" THEN "Game is already finished"
  ELSE IF mistake = "coordinate" THEN "Invalid move format"
  ELSE "Position is already occupied!"

\* the lines that tell why a move was not made
RejectionLines ==
  {"Game is already finished", "Invalid move format",
   "Position is already occupied!", "Invalid move at",
   "Failed to make move at", "Failed to load game state",
   "Error processing move"}

\* the invocation h is a process_move that has loaded a game
MoveLoaded(h) ==
  /\ h.cmd = "move"
  /\ h.pc # "start"
  /\ h.loaded.kind \in {"absent", "object"}

\* C17: a process_move that has loaded a game rejects the move exactly when
\* the game is finished, or else the title names no cell of the board, or
\* else the cell is not empty; it then prints the line of that mistake and
\* no line of another, returns False, holds the game as loaded and has called
\* neither make_move nor save_state.
C17_RejectionMessages ==
  \A i \in Handlers :
    LET h == handlers[i]
    IN MoveLoaded(h) =>
         IF Mistake(h) = "none"
           THEN /\ Range(h.out) \cap RejectionLines = {}
                /\ h.ops[2] = "make_move"
         ELSE /\ h.pc = "done"
              /\ h.result = "False"
              /\ Range(h.out) \cap RejectionLines = {MistakeLine(Mistake(h))}
              /\ h.ops = <<"load_state">>
              /\ h.game_state.board = FoundBoard(h)
              /\ h.game_state.game_status = FoundStatus(h)

\* one invocation was rejected for each of the three mistakes in turn
C17_Witness ==
  \E i \in Handlers :
    /\ MoveLoaded(handlers[i])
    /\ Mistake(handlers[i]) = "occupied"
    /\ handlers[i].result = "False"
    /\ "Position is already occupied!" \in Range(handlers[i].out)

C17_WitnessFinished ==
  \E i \in Handlers :
    /\ MoveLoaded(handlers[i])
    /\ Mistake(handlers[i]) = "finished"
    /\ Meaning(handlers[i].title) = NoCoord
    /\ handlers[i].result = "False"

C17_WitnessCoordinate ==
  \E i \in Handlers :
    /\ MoveLoaded(handlers[i])
    /\ Mistake(handlers[i]) = "coordinate"
    /\ handlers[i].result = "False"

\* both invocations are process_move calls that found the same record in
\* the file and have returned True
Overlapped ==
  /\ \A i \in Handlers :
       /\ handlers[i].cmd = "move"
       /\ handlers[i].pc = "done"
       /\ handlers[i].result = "True"
  /\ handlers[1].loaded = handlers[2].loaded
  /\ handlers[1].loaded.kind = "object"

\* C16: when two process_move invocations have loaded the same persisted
\* state and both have reported a successful move, the file holds the state
\* one of them saved, whole, and none of the other's: its move_count is one
\* more than the loaded one, not two.
C16_LastWriteWins ==
  Overlapped =>
    /\ \A i \in Handlers :
         handlers[i].game_state.move_count
           = handlers[i].loaded.data.move_count + 1
    /\ state_file \in {Encode(handlers[i].game_state) : i \in Handlers}
    /\ state_file.data.move_count = handlers[1].loaded.data.move_count + 1
    /\ StoneCount(state_file.data.board)
         = StoneCount(handlers[1].loaded.data.board) + 1

\* both invocations have loaded the mid-game record, the first has played
\* (7, 7) and the second (0, 5), both have returned True, and the file holds
\* the stone of the second and not that of the first
C16_Witness ==
  /\ Overlapped
  /\ handlers[1].coords = <<7, 7>>
  /\ handlers[2].coords = <<0, 5>>
  /\ handlers[1].loaded = Encode(MidGame)
  /\ state_file.data.board[8][8] = EMPTY
  /\ state_file.data.board[1][6] = BLACK
  /\ state_file.data.move_count = MidGame.move_count + 1

\* the number of times call stands in ops
Calls(ops, call) == Cardinality({k \in 1..Len(ops) : ops[k] = call})

\* C20: an invocation makes at most one load_state, at most one make_move
\* and at most one save_state call, in that order: no load_state call
\* follows its save_state call.
C20_OneLoadMoveSave ==
  \A i \in Handlers :
    LET ops == handlers[i].ops
    IN /\ Calls(ops, "load_state") <= 1
       /\ Calls(ops, "make_move") <= 1
       /\ Calls(ops, "save_state") <= 1
       /\ \A j, k \in 1..Len(ops) :
            (j < k /\ ops[j] = "save_state") => ops[k] # "load_state"

\* C21: in every reachable state, after load_state of any record included,
\* current_player is Black or White and winner is None, Black or White; and
\* a make_move that returns True never leaves the empty marker in the cell it
\* played.
C21_NeverEmpty ==
  /\ [](/\ game_state.current_player \in {BLACK, WHITE}
        /\ game_state.winner \in {None, BLACK, WHITE})
  /\ [][\A rc \in Inputs :
          (MakeMove(rc[1], rc[2]) /\ ret' = "True") =>
            Cell(game_state'.board, rc[1], rc[2]) # EMPTY]_vars

\* the orders in which cells of the late-game position can be played
Orders ==
  UNION {{o \in [1..n -> HoleSet] : \A i, j \in 1..n : i # j => o[i] # o[j]}
           : n \in 0..NumHoles}

RECURSIVE Play(_, _)
\* the state a sequence of make_move calls leaves
Play(self, moves) ==
  IF moves = <<>> THEN self
  ELSE Play(make_move(self, Head(moves)[1], Head(moves)[2]).self, Tail(moves))

\* the games that can follow the late-game position
Games == {Play(LateGame, o) : o \in Orders}

\* C22: two game states of different status never have the same status
\* string, neither from get_status_message nor from get_current_game_info on
\* their saved records; the string of an ongoing game names the player to move
\* and the number move_count + 1.
C22_StatusDistinct ==
  [][/\ GetStatusMessage =>
          /\ \A g \in Games :
               g.game_status # game_state.game_status
                 => get_status_message(g) # status_text'
          /\ game_state.game_status = ONGOING =>
               /\ status_text'[2] = (IF game_state.current_player = BLACK
                                       THEN "Black" ELSE "White")
               /\ status_text'[4] = ToString(game_state.move_count + 1)
     /\ (GetCurrentGameInfo /\ state_file.kind = "object") =>
          \A g \in Games :
            g.game_status # state_file.data.game_status
              => get_current_game_info(Encode(g)) # status_text']_vars

\* C23: in every state built by reset and moves, an ongoing or drawn game
\* has no five stones of one colour in a line anywhere on the board, and the
\* status is a win exactly when there is such a line: then the line is of the
\* winner's colour, the other colour has none, and one passes through
\* last_move.
C23_NoLineMissed ==
  Built =>
    /\ game_state.game_status \in {ONGOING, DRAW} =>
         /\ ~ HasFive(game_state.board, BLACK)
         /\ ~ HasFive(game_state.board, WHITE)
    /\ \A p \in {BLACK, WHITE} :
         game_state.game_status = WinsOf(p) =>
           /\ game_state.winner = p
           /\ HasFive(game_state.board, p)
           /\ ~ HasFive(game_state.board, Other(p))
           /\ game_state.last_move # NoMove
           /\ FiveThrough(game_state.board, p, game_state.last_move)

\* Black won with a stone placed between the four others of its line
C23_Witness ==
  /\ Built
  /\ game_state.game_status = BLACK_WINS
  /\ HasFive(game_state.board, BLACK)
  /\ \E d \in Axes :
       /\ InBoard(game_state.last_move[1] + d[1], game_state.last_move[2] + d[2])
       /\ InBoard(game_state.last_move[1] - d[1], game_state.last_move[2] - d[2])
       /\ Mark(<<game_state.last_move[1] + d[1],
                 game_state.last_move[2] + d[2]>>) = BLACK
       /\ Mark(<<game_state.last_move[1] - d[1],
                 game_state.last_move[2] - d[2]>>) = BLACK

\* C24: a process_move invocation that found a game in the file and returned
\* False has not called save_state, and when no other invocation saved either
\* the file is as the invocation found it.
C24_FailureLeavesFile ==
  \A i \in Handlers :
    LET h == handlers[i]
    IN (/\ h.cmd = "move"
        /\ h.pc = "done"
        /\ h.result = "False"
        /\ h.loaded.kind = "object") =>
         /\ Calls(h.ops, "save_state") = 0
         /\ (\A j \in Handlers \ {i} :
               Calls(handlers[j].ops, "save_state") = 0) =>
              state_file = h.loaded

\* C25: in every state built by reset and moves, last_move is None exactly
\* when move_count is 0; otherwise it is a cell of the board that holds Black
\* when move_count is odd and White when it is even, so the player that
\* generate_status_message names for the last move is the colour of that
\* cell; and in an ongoing game it is Black's turn exactly when move_count is
\* even.
C25_LastMoveParity ==
  /\ game_state.last_move = NoMove <=> game_state.move_count = 0
  /\ (Built /\ game_state.last_move # NoMove) =>
       /\ InBoard(game_state.last_move[1], game_state.last_move[2])
       /\ Mark(game_state.last_move) =
            (IF game_state.move_count % 2 = 1 THEN BLACK ELSE WHITE)
       /\ last_player(game_state) =
            (IF Mark(game_state.last_move) = BLACK THEN "Black"
             ELSE IF Mark(game_state.last_move) = WHITE THEN "White"
             ELSE "nobody")
  /\ game_state.game_status = ONGOING =>
       (game_state.current_player = BLACK <=> game_state.move_count % 2 = 0)

\* White placed the last stone, away from the diagonal of the board, and the
\* game goes on
C25_Witness ==
  /\ Built
  /\ ret = "True"
  /\ game_state.move_count >= 2
  /\ game_state.last_move # NoMove
  /\ game_state.last_move[1] # game_state.last_move[2]
  /\ Mark(game_state.last_move) = WHITE
  /\ last_player(game_state) = "White"
  /\ game_state.game_status = ONGOING
  /\ game_state.current_player = BLACK

====
